---- MODULE Spec2Model ----
(***************************************************************************)
(* Word count (src/wordcount/main.py): the tokenize / clean / aggregate /  *)
(* report pipeline of perform_word_count and the session lifecycle of      *)
(* main.  A string is a sequence of one-character strings.                 *)
(***************************************************************************)
EXTENDS Integers, Sequences, FiniteSets, TLC

VARIABLES
    pc,                 \* position in perform_word_count / main
    input_data,         \* list of lines handed to perform_word_count
    df,                 \* rows of the "line" column
    words_df,           \* rows of the exploded "word" column
    clean_words_df,     \* rows of the cleaned, filtered "word" column
    word_counts_df,     \* rows <<word, count>> ordered by count descending
    total_unique_words, \* local of perform_word_count (line 74)
    out_unique,         \* printed "Total unique words"
    out_occurrences,    \* printed "Total word occurrences"
    out_top,            \* rows printed by word_counts_df.show(20)
    out_hist,           \* rows printed by the frequency distribution show(10)
    exc,                \* exception in flight or raised to the caller
    log,                \* events sent to the logger, in order
    spark,              \* main's local `spark`: "unbound", "active", "stopped"
    stop_calls,         \* number of calls of spark.stop()
    file_text,          \* content of INPUT_FILE, when it exists
    file_exists,        \* os.path.exists(input_file)
    pool,               \* partial frequency tables of the chunks (parallel merge)
    pending,            \* lines not yet assigned to a chunk
    runs                \* Top-K rows printed by two runs over the same input

pwcVars == <<df, words_df, clean_words_df, word_counts_df, total_unique_words,
             out_unique, out_occurrences, out_top, out_hist>>
mainVars == <<spark, stop_calls, file_text, file_exists>>
mergeVars == <<pool, pending>>
vars == <<pc, input_data, pwcVars, exc, log, mainVars, mergeVars, runs>>

----------------------------------------------------------------------------
(* Bounds of the model *)

\* Longest input text: the lengths of the lines plus one per line break.
MaxInputLen == 5
\* Longest content of the input file read by main.
MaxFileLen == 3
\* Number of chunks the lines are partitioned into.
MaxChunks == 3
\* Largest K of a report call the claims are evaluated at.
MaxK == 3

\* show(20) of the word counts, show(10) of the frequency distribution.
TopN == 20
HistN == 10

----------------------------------------------------------------------------
(* Characters *)

UpperCase == <<"A","B","C","D","E","F","G","H","I","J","K","L","M",
               "N","O","P","Q","R","S","T","U","V","W","X","Y","Z">>
LowerCase == <<"a","b","c","d","e","f","g","h","i","j","k","l","m",
               "n","o","p","q","r","s","t","u","v","w","x","y","z">>
Digits == {"0","1","2","3","4","5","6","7","8","9"}

Range(s) == {s[i] : i \in DOMAIN s}

\* \s of the regex dialect: space, tab, newline, form feed, carriage return.
Whitespace == {" ", "\t", "\n", "\f", "\r"}
\* \w of the regex dialect: [a-zA-Z_0-9].
WordChars == Range(UpperCase) \cup Range(LowerCase) \cup Digits \cup {"_"}

\* The characters input lines are drawn from, and the line break.
Alphabet == {"a", "b", "A", "-", " "}
NL == "\n"

----------------------------------------------------------------------------
(* Pure column functions *)

Min(a, b) == IF a < b THEN a ELSE b

\* Splitting on \s instead of \s+: every whitespace character separates.
RECURSIVE SplitFromSingle(_, _, _, _)
SplitFromSingle(s, i, tokens, cur) ==
    IF i > Len(s) THEN Append(tokens, cur)
    ELSE IF s[i] \in Whitespace
         THEN SplitFromSingle(s, i + 1, Append(tokens, cur), <<>>)
         ELSE SplitFromSingle(s, i + 1, tokens, Append(cur, s[i]))

RECURSIVE SplitFrom(_, _, _, _)
SplitFrom(s, i, tokens, cur) ==
    IF i > Len(s) THEN Append(tokens, cur)
    ELSE IF s[i] \in Whitespace
         THEN IF i > 1 /\ s[i-1] \in Whitespace
              THEN SplitFrom(s, i + 1, tokens, cur)
              ELSE SplitFrom(s, i + 1, Append(tokens, cur), <<>>)
         ELSE SplitFrom(s, i + 1, tokens, Append(cur, s[i]))

SplitSingle(line) == SplitFromSingle(line, 1, <<>>, <<>>)

\* split(col("line"), r"\s+"): the pieces between the maximal whitespace runs,
\* leading and trailing empty pieces kept (limit -1).
Split(line) == SplitFrom(line, 1, <<>>, <<>>)

RECURSIVE Flatten(_)
Flatten(arrays) ==
    IF arrays = <<>> THEN <<>> ELSE Head(arrays) \o Flatten(Tail(arrays))

\* explode(...): one row per element of each row's array.
Explode(arrays) == Flatten(arrays)

Tokenizer(rows) == Explode([i \in DOMAIN rows |-> Split(rows[i])])

IsWordChar(c) == c \in WordChars

\* Replacing the first match only.
RegexpReplaceFirstNonWord(word) ==
    IF \E k \in DOMAIN word : ~IsWordChar(word[k])
    THEN LET k == CHOOSE k \in DOMAIN word :
                      ~IsWordChar(word[k]) /\ \A m \in 1..(k-1) : IsWordChar(word[m])
         IN SubSeq(word, 1, k - 1) \o SubSeq(word, k + 1, Len(word))
    ELSE word

\* regexp_replace(col("word"), r"[^\w]", "")
RegexpReplaceNonWord(word) == SelectSeq(word, IsWordChar)

LowerChar(c) ==
    IF \E i \in DOMAIN UpperCase : UpperCase[i] = c
    THEN LowerCase[CHOOSE i \in DOMAIN UpperCase : UpperCase[i] = c]
    ELSE c

\* lower(...)
Lower(word) == [i \in DOMAIN word |-> LowerChar(word[i])]

\* Cleaning without lower(...).
NormalizeNoLower(word) == RegexpReplaceNonWord(word)

Normalize(word) == Lower(RegexpReplaceNonWord(word))

NotEmpty(word) == word # <<>>

\* .select(lower(regexp_replace(...))).filter(col("word") != "")
Normalizer(rows) == SelectSeq([i \in DOMAIN rows |-> Normalize(rows[i])], NotEmpty)

\* Counting each key once, whatever its number of rows.
GroupByCountDistinct(keys) == [k \in Range(keys) |-> 1]

\* groupBy(key).agg(count("*")): the table key -> number of rows with that key.
GroupByCount(keys) ==
    [k \in Range(keys) |-> Cardinality({i \in DOMAIN keys : keys[i] = k})]

\* The rows <<key, count>> of a table.
RowsOf(table) == {<<k, table[k]>> : k \in DOMAIN table}

\* Every order in which an aggregation can emit a set of rows.
Arrangements(rows) ==
    {s \in [1..Cardinality(rows) -> rows] : Range(s) = rows}

\* Position at which a row is inserted to keep `sorted` descending by key(row),
\* after the rows whose key is not smaller (stable).
RECURSIVE InsertDesc(_, _, _)
InsertDesc(sorted, row, col) ==
    IF sorted = <<>> THEN <<row>>
    ELSE IF Head(sorted)[col] >= row[col]
         THEN <<Head(sorted)>> \o InsertDesc(Tail(sorted), row, col)
         ELSE <<row>> \o sorted

RECURSIVE SortDesc(_, _)
SortDesc(rows, col) ==
    IF rows = <<>> THEN <<>>
    ELSE InsertDesc(SortDesc(SubSeq(rows, 1, Len(rows) - 1), col), rows[Len(rows)], col)

\* No ordering: the rows as the aggregation emitted them.
OrderByNothing(rows, col) == rows

\* .orderBy(col("count").desc()) of rows arriving in the order `rows`.
OrderByCountDesc(rows, col) == SortDesc(rows, col)

\* DataFrame.show(n): the first n rows.
Show(rows, n) == SubSeq(rows, 1, Min(n, Len(rows)))

\* createDataFrame(rows, ["line"]) infers the schema from the rows and has
\* nothing to infer it from when there are none.
CannotInferSchema(data) == data = <<>>

----------------------------------------------------------------------------
(* Inputs *)

Texts(n) == UNION {[1..k -> Alphabet \cup {NL}] : k \in 0..n}

RECURSIVE LinesFrom(_, _, _, _)
LinesFrom(t, i, lines, cur) ==
    IF i > Len(t) THEN Append(lines, cur)
    ELSE IF t[i] = NL
         THEN LinesFrom(t, i + 1, Append(lines, cur), <<>>)
         ELSE LinesFrom(t, i + 1, lines, Append(cur, t[i]))

\* The lines of a text, broken at every line break.
Lines(t) == LinesFrom(t, 1, <<>>, <<>>)

\* Every list of lines whose text is at most MaxInputLen long, and the empty list.
Inputs == {<<>>} \cup {Lines(t) : t \in Texts(MaxInputLen)}

----------------------------------------------------------------------------
(* perform_word_count *)

InitPwcVars ==
    /\ df = <<>>
    /\ words_df = <<>>
    /\ clean_words_df = <<>>
    /\ word_counts_df = <<>>
    /\ total_unique_words = 0
    /\ out_unique = 0
    /\ out_occurrences = 0
    /\ out_top = <<>>
    /\ out_hist = <<>>

InitMainVars ==
    /\ spark = "unbound"
    /\ stop_calls = 0
    /\ file_text = <<>>
    /\ file_exists = FALSE

InitMergeVars ==
    /\ pool = <<>>
    /\ pending = <<>>

Init ==
    /\ pc = "createDataFrame"
    /\ input_data \in Inputs
    /\ InitPwcVars
    /\ exc = "none"
    /\ log = <<<<"Starting word count operation", Len(input_data)>>>>
    /\ InitMainVars
    /\ InitMergeVars
    /\ runs = <<>>

\* lines 53-54
CreateDataFrame ==
    /\ pc = "createDataFrame"
    /\ IF CannotInferSchema(input_data)
       THEN /\ pc' = "raised"
            /\ exc' = "ValueError"
            /\ UNCHANGED <<df, log>>
       ELSE /\ df' = input_data
            /\ log' = Append(log, <<"Created DataFrame from input data", Len(input_data)>>)
            /\ pc' = "tokenize"
            /\ exc' = exc
    /\ UNCHANGED <<input_data, words_df, clean_words_df, word_counts_df,
                   total_unique_words, out_unique, out_occurrences, out_top,
                   out_hist, mainVars, mergeVars, runs>>

\* lines 57-59
Tokenize ==
    /\ pc = "tokenize"
    /\ words_df' = Tokenizer(df)
    /\ pc' = "clean"
    /\ UNCHANGED <<input_data, df, clean_words_df, word_counts_df,
                   total_unique_words, out_unique, out_occurrences, out_top,
                   out_hist, exc, log, mainVars, mergeVars, runs>>

\* lines 62-66
Clean ==
    /\ pc = "clean"
    /\ clean_words_df' = Normalizer(words_df)
    /\ log' = Append(log, <<"Tokenized and cleaned words", Len(clean_words_df')>>)
    /\ pc' = "count"
    /\ UNCHANGED <<input_data, df, words_df, word_counts_df,
                   total_unique_words, out_unique, out_occurrences, out_top,
                   out_hist, exc, mainVars, mergeVars, runs>>

\* lines 69-75: the aggregation emits its rows in some order, orderBy sorts them
CountFrequencies ==
    /\ pc = "count"
    /\ \E emitted \in Arrangements(RowsOf(GroupByCount(clean_words_df))) :
           word_counts_df' = OrderByCountDesc(emitted, 2)
    /\ total_unique_words' = Len(word_counts_df')
    /\ log' = Append(log, <<"Word count completed", total_unique_words'>>)
    /\ pc' = "print"
    /\ UNCHANGED <<input_data, df, words_df, clean_words_df,
                   out_unique, out_occurrences, out_top,
                   out_hist, exc, mainVars, mergeVars, runs>>

\* Printing the number of raw tokens as the word occurrences.
PrintTotalsOfTokens ==
    /\ pc = "print"
    /\ out_unique' = total_unique_words
    /\ out_occurrences' = Len(words_df)
    /\ pc' = "showTop"
    /\ UNCHANGED <<input_data, df, words_df, clean_words_df, word_counts_df,
                   total_unique_words, out_top,
                   out_hist, exc, log, mainVars, mergeVars, runs>>

\* lines 77-83
PrintTotals ==
    /\ pc = "print"
    /\ out_unique' = total_unique_words
    /\ out_occurrences' = Len(clean_words_df)
    /\ pc' = "showTop"
    /\ UNCHANGED <<input_data, df, words_df, clean_words_df, word_counts_df,
                   total_unique_words, out_top,
                   out_hist, exc, log, mainVars, mergeVars, runs>>

\* line 85
ShowTopK ==
    /\ pc = "showTop"
    /\ out_top' = Show(word_counts_df, TopN)
    /\ pc' = "showHist"
    /\ UNCHANGED <<input_data, df, words_df, clean_words_df, word_counts_df,
                   total_unique_words, out_unique, out_occurrences,
                   out_hist, exc, log, mainVars, mergeVars, runs>>

\* The count column of the word count rows.
CountColumn(rows) == [i \in DOMAIN rows |-> rows[i][2]]

\* The frequency distribution printed without its orderBy.
ShowHistogramUnordered ==
    /\ pc = "showHist"
    /\ \E emitted \in Arrangements(RowsOf(GroupByCount(CountColumn(word_counts_df)))) :
           out_hist' = Show(emitted, HistN)
    /\ pc' = "returned"
    /\ UNCHANGED <<input_data, df, words_df, clean_words_df, word_counts_df,
                   total_unique_words, out_unique, out_occurrences, out_top,
                   exc, log, mainVars, mergeVars, runs>>

\* lines 88-93
ShowHistogram ==
    /\ pc = "showHist"
    /\ \E emitted \in Arrangements(RowsOf(GroupByCount(CountColumn(word_counts_df)))) :
           out_hist' = Show(OrderByCountDesc(emitted, 1), HistN)
    /\ pc' = "returned"
    /\ UNCHANGED <<input_data, df, words_df, clean_words_df, word_counts_df,
                   total_unique_words, out_unique, out_occurrences, out_top,
                   exc, log, mainVars, mergeVars, runs>>

Next ==
    \/ CreateDataFrame
    \/ Tokenize
    \/ Clean
    \/ CountFrequencies
    \/ PrintTotals
    \/ ShowTopK
    \/ ShowHistogram

Spec == Init /\ [][Next]_vars

----------------------------------------------------------------------------
(* What the reports are measured against: the words of the input, counted  *)
(* position by position.                                                   *)

\* <<i, j>>: token j of line i; the function gives the word it normalizes to.
WordsAt ==
    LET toks == [i \in DOMAIN input_data |-> Split(input_data[i])]
        positions == UNION {{<<i, j>> : j \in DOMAIN toks[i]} : i \in DOMAIN input_data}
    IN [p \in positions |-> Normalize(toks[p[1]][p[2]])]

\* The positions whose word is emitted (not dropped as empty).
Emitted(at) == {p \in DOMAIN at : at[p] # <<>>}

\* word -> number of positions it is emitted at.
OccurrencesOf(at) ==
    [w \in {at[p] : p \in Emitted(at)} |-> Cardinality({p \in DOMAIN at : at[p] = w})]

RECURSIVE SumSeq(_)
SumSeq(s) == IF s = <<>> THEN 0 ELSE Head(s) + SumSeq(Tail(s))

LowerWordChars == Range(LowerCase) \cup Digits \cup {"_"}

\* C2: once the totals are printed, the printed occurrences equal the sum of
\* the counts of the frequency table and the number of non-empty Normalizer
\* outputs over all lines, and the printed unique words equal the number of
\* keys of the frequency table.
C2_SumInvariant ==
    pc = "showTop" =>
        LET at == WordsAt
        IN /\ out_occurrences = SumSeq(CountColumn(word_counts_df))
           /\ out_occurrences = Cardinality(Emitted(at))
           /\ out_unique = Cardinality({word_counts_df[i][1] : i \in DOMAIN word_counts_df})
           /\ out_unique = Cardinality(DOMAIN OccurrencesOf(at))

C2_Witness ==
    /\ pc = "showTop"
    /\ Len(input_data) >= 2
    /\ out_unique >= 1
    /\ out_occurrences > out_unique
    /\ Len(words_df) > out_occurrences

\* C3: an empty overall input, [""] or [], is a valid run: perform_word_count
\* ends without raising, with an empty table, zero totals and empty reports.
C3_EmptyInputIsValid ==
    (input_data \in {<<>>, << <<>> >>} /\ pc \in {"returned", "raised"}) =>
        /\ pc = "returned"
        /\ exc = "none"
        /\ word_counts_df = <<>>
        /\ out_unique = 0
        /\ out_occurrences = 0
        /\ out_top = <<>>
        /\ out_hist = <<>>

HasWhitespace(token) == \E k \in DOMAIN token : token[k] \in Whitespace

\* C4 as claimed: the Tokenizer's tokens hold no empty string and no token
\* with whitespace, and the empty line yields no token.
C4_NoEmptyToken ==
    pc = "clean" =>
        /\ \A i \in DOMAIN words_df : words_df[i] # <<>> /\ ~HasWhitespace(words_df[i])
        /\ \A i \in DOMAIN input_data : input_data[i] = <<>> => Split(input_data[i]) = <<>>

\* C4 as amended: no token holds whitespace; a line's tokens hold an empty
\* string exactly at an end where the line is empty or begins (ends) with
\* whitespace, never between two tokens; the empty line yields the single
\* empty token; and the Normalizer's filter lets no empty token through.
C4_TokensAmended ==
    /\ pc = "clean" =>
        /\ \A i \in DOMAIN words_df : ~HasWhitespace(words_df[i])
        /\ \A i \in DOMAIN input_data :
             LET line == input_data[i]
                 t == Split(line)
             IN /\ Len(t) >= 1
                /\ \A j \in DOMAIN t : t[j] = <<>> => (j = 1 \/ j = Len(t))
                /\ t[1] = <<>> <=> (line = <<>> \/ line[1] \in Whitespace)
                /\ t[Len(t)] = <<>> <=> (line = <<>> \/ line[Len(line)] \in Whitespace)
                /\ line = <<>> => t = << <<>> >>
    /\ pc = "count" => \A i \in DOMAIN clean_words_df : clean_words_df[i] # <<>>

C4_Witness ==
    /\ pc = "count"
    /\ \E i \in DOMAIN input_data :
         /\ Len(input_data[i]) = 5
         /\ input_data[i][1] \in Whitespace
         /\ input_data[i][3] \in Whitespace
         /\ input_data[i][4] \in Whitespace
    /\ Len(words_df) = 3
    /\ words_df[1] = <<>>
    /\ Len(clean_words_df) = 2

\* C5: every raw token yields zero or one word, and every word the Normalizer
\* emits, hence every key of the frequency table, is non-empty and made of
\* lowercase word characters only.
C5_NormalizedWords ==
    /\ pc = "count" =>
        /\ Len(clean_words_df) <= Len(words_df)
        /\ \A i \in DOMAIN words_df : Len(Normalizer(<<words_df[i]>>)) \in {0, 1}
        /\ \A i \in DOMAIN clean_words_df :
             /\ clean_words_df[i] # <<>>
             /\ Range(clean_words_df[i]) \subseteq LowerWordChars
    /\ pc = "print" =>
        \A i \in DOMAIN word_counts_df :
             /\ word_counts_df[i][1] # <<>>
             /\ Range(word_counts_df[i][1]) \subseteq LowerWordChars

C5_Witness ==
    /\ pc = "print"
    /\ \E i \in DOMAIN words_df :
         /\ "A" \in Range(words_df[i])
         /\ "-" \in Range(words_df[i])
    /\ \E i \in DOMAIN words_df : words_df[i] = <<"-">>
    /\ Len(clean_words_df) < Len(words_df)
    /\ Len(word_counts_df) = 1

\* C6: normalizing a word the Normalizer emitted gives that word again,
\* unchanged and not dropped.
C6_Idempotent ==
    pc = "count" =>
        /\ \A i \in DOMAIN clean_words_df :
             Normalizer(<<clean_words_df[i]>>) = <<clean_words_df[i]>>
        /\ \A i \in DOMAIN words_df :
             Normalizer(Normalizer(<<words_df[i]>>)) = Normalizer(<<words_df[i]>>)

C6_Witness ==
    /\ pc = "count"
    /\ \E i \in DOMAIN words_df :
         /\ Len(words_df[i]) >= 3
         /\ "A" \in Range(words_df[i])
         /\ Cardinality({k \in DOMAIN words_df[i] : words_df[i][k] = "-"}) >= 2
         /\ Normalizer(<<words_df[i]>>) # <<words_df[i]>>
         /\ Normalizer(<<words_df[i]>>) # <<>>

\* r is the Top-K report of the table `sorted` for the given K, occ being the
\* number of occurrences of each word of the input.
IsTopK(r, K, sorted, occ) ==
    /\ Len(r) = Min(K, Cardinality(DOMAIN occ))
    /\ r = SubSeq(sorted, 1, Len(r))
    /\ \A i \in DOMAIN r : r[i][1] \in DOMAIN occ /\ r[i][2] = occ[r[i][1]]
    /\ \A i, j \in DOMAIN r : i < j => r[i][2] >= r[j][2] /\ r[i][1] # r[j][1]
    /\ \A w \in DOMAIN occ \ {r[i][1] : i \in DOMAIN r} :
         \A i \in DOMAIN r : occ[w] <= r[i][2]

\* C7: the Top-K report is the first min(K, unique words) rows of the table
\* sorted by count descending: counts do not increase, each word appears at
\* most once with its exact count, and no omitted word has a count greater
\* than an included one; for the printed report (K = 20) and for every K.
C7_TopK ==
    pc = "showHist" =>
        LET occ == OccurrencesOf(WordsAt)
        IN /\ \A K \in 0..MaxK : IsTopK(Show(word_counts_df, K), K, word_counts_df, occ)
           /\ IsTopK(out_top, TopN, word_counts_df, occ)

C7_Witness ==
    /\ pc = "showHist"
    /\ input_data = << <<"a", " ", "a", " ", "b">> >>
    /\ Show(word_counts_df, 1) = << << <<"a">>, 2 >> >>
    /\ out_top = << << <<"a">>, 2 >>, << <<"b">>, 1 >> >>

\* h is the histogram of the occurrences occ, cut to its first K entries; the
\* input emits `total` words.
IsHistogram(h, K, occ, total) ==
    LET counts == {occ[w] : w \in DOMAIN occ}
    IN /\ Len(h) = Min(K, Cardinality(counts))
       /\ \A i \in DOMAIN h :
            /\ h[i][1] \in counts
            /\ h[i][2] = Cardinality({w \in DOMAIN occ : occ[w] = h[i][1]})
       /\ \A i, j \in DOMAIN h : i < j => h[i][1] > h[j][1]
       /\ \A c \in counts \ {h[i][1] : i \in DOMAIN h} :
            \A i \in DOMAIN h : c < h[i][1]
       /\ Len(h) = Cardinality(counts) =>
            /\ SumSeq([i \in DOMAIN h |-> h[i][2]]) = Cardinality(DOMAIN occ)
            /\ SumSeq([i \in DOMAIN h |-> h[i][1] * h[i][2]]) = total

\* C8: the histogram has one entry (c, n) per distinct count c of the table,
\* n the number of words with count c, sorted by c strictly descending and cut
\* to the first K (10 as printed); uncut, the n sum to the unique words and
\* the c*n to the word occurrences.
C8_Histogram ==
    pc = "returned" =>
        LET at == WordsAt
            occ == OccurrencesOf(at)
            total == Cardinality(Emitted(at))
        IN /\ \A emitted \in Arrangements(RowsOf(GroupByCount(CountColumn(word_counts_df)))) :
                \A K \in 0..MaxK :
                    IsHistogram(Show(OrderByCountDesc(emitted, 1), K), K, occ, total)
           /\ IsHistogram(out_hist, HistN, occ, total)

C8_Witness ==
    /\ pc = "returned"
    /\ input_data = << <<"a", " ", "a", " ", "b">> >>
    /\ out_hist = << <<2, 1>>, <<1, 1>> >>

----------------------------------------------------------------------------
(* Aggregation over a partition of the lines: a partial table per chunk,   *)
(* the partial tables merged pairwise in any order.                        *)

\* Longest input text of the partitioned aggregation.
MaxMergeLen == 3

\* Lines 57-70 on the lines of one chunk.
FrequencyTable(lines) == GroupByCount(Normalizer(Tokenizer(lines)))

\* Merge of two partial tables: the counts of shared keys are summed.
MergeTables(t1, t2) ==
    [k \in DOMAIN t1 \cup DOMAIN t2 |->
        (IF k \in DOMAIN t1 THEN t1[k] ELSE 0) + (IF k \in DOMAIN t2 THEN t2[k] ELSE 0)]

RemoveAt(s, j) == SubSeq(s, 1, j - 1) \o SubSeq(s, j + 1, Len(s))

InitMerge ==
    /\ pc = "partition"
    /\ input_data \in {<<>>} \cup {Lines(t) : t \in Texts(MaxMergeLen)}
    /\ pending = input_data
    /\ pool \in {[c \in 1..n |-> <<>>] : n \in 1..MaxChunks}
    /\ InitPwcVars
    /\ exc = "none"
    /\ log = <<>>
    /\ InitMainVars
    /\ runs = <<>>

\* The next line goes to any chunk.
AssignLine ==
    /\ pc = "partition"
    /\ pending # <<>>
    /\ \E c \in DOMAIN pool : pool' = [pool EXCEPT ![c] = Append(@, Head(pending))]
    /\ pending' = Tail(pending)
    /\ UNCHANGED <<pc, input_data, pwcVars, exc, log, mainVars, runs>>

\* Every chunk, empty ones included, is aggregated on its own.
BuildPartials ==
    /\ pc = "partition"
    /\ pending = <<>>
    /\ pool' = [c \in DOMAIN pool |-> FrequencyTable(pool[c])]
    /\ pc' = "merge"
    /\ UNCHANGED <<input_data, pending, pwcVars, exc, log, mainVars, runs>>

\* Any two partial tables are merged into one, in either order.
MergePartials ==
    /\ pc = "merge"
    /\ \E i, j \in DOMAIN pool :
         /\ i # j
         /\ pool' = RemoveAt([pool EXCEPT ![i] = MergeTables(pool[i], pool[j])], j)
    /\ UNCHANGED <<pc, input_data, pending, pwcVars, exc, log, mainVars, runs>>

NextMerge ==
    \/ AssignLine
    \/ BuildPartials
    \/ MergePartials

SpecMerge == InitMerge /\ [][NextMerge]_vars

RECURSIVE MergeAll(_)
MergeAll(tables) ==
    IF tables = <<>> THEN <<>>
    ELSE MergeTables(Head(tables), MergeAll(Tail(tables)))

\* C1: whatever the partition of the lines into chunks (empty chunks
\* included) and whatever the order of the merges, the partial tables merge
\* to exactly the table of the single-pass aggregation over the whole input;
\* in particular the one table left after the last merge is that table.
C1_MergeEqualsSinglePass ==
    pc = "merge" =>
        /\ MergeAll(pool) = FrequencyTable(input_data)
        /\ DOMAIN MergeAll(pool) = DOMAIN OccurrencesOf(WordsAt)
        /\ Len(pool) = 1 => pool[1] = FrequencyTable(input_data)

C1_Witness ==
    /\ pc = "merge"
    /\ Len(pool) = 2
    /\ Len(input_data) = 2
    /\ pool[1] = pool[2]
    /\ DOMAIN pool[1] # {}
    /\ \A k \in DOMAIN pool[1] : FrequencyTable(input_data)[k] = 2

----------------------------------------------------------------------------
(* Two runs of perform_word_count over the same input *)

\* Lines 53-85: what one run prints as its Top-K report.
TopKReports(data) ==
    IF CannotInferSchema(data)
    THEN {[status |-> "raised", rows |-> <<>>]}
    ELSE {[status |-> "shown", rows |-> Show(OrderByCountDesc(emitted, 2), TopN)] :
             emitted \in Arrangements(RowsOf(FrequencyTable(data)))}

InitRuns ==
    /\ pc = "run"
    /\ input_data \in Inputs
    /\ runs = <<>>
    /\ InitPwcVars
    /\ exc = "none"
    /\ log = <<>>
    /\ InitMainVars
    /\ InitMergeVars

RunTopK ==
    /\ pc = "run"
    /\ Len(runs) < 2
    /\ \E report \in TopKReports(input_data) : runs' = Append(runs, report)
    /\ UNCHANGED <<pc, input_data, pwcVars, exc, log, mainVars, mergeVars>>

NextRuns == RunTopK

SpecRuns == InitRuns /\ [][NextRuns]_vars

\* C9: two runs over the same input print the identical ordered sequence of
\* (word, count) rows, the order of words with equal counts included.
C9_TopKReproducible ==
    Len(runs) = 2 => runs[1] = runs[2]

----------------------------------------------------------------------------
(* main *)

\* Exceptions that are instances of Exception, and those that are not
\* (KeyboardInterrupt, SystemExit).
ExceptionKinds == {"Exception", "BaseException"}

RECURSIVE StripLeft(_)
StripLeft(s) ==
    IF s # <<>> /\ Head(s) \in Whitespace THEN StripLeft(Tail(s)) ELSE s

RECURSIVE StripRight(_)
StripRight(s) ==
    IF s # <<>> /\ s[Len(s)] \in Whitespace
    THEN StripRight(SubSeq(s, 1, Len(s) - 1))
    ELSE s

\* line.strip()
Strip(s) == StripRight(StripLeft(s))

\* [line.strip() for line in f if line.strip()]
ReadLines(text) ==
    LET lines == Lines(text)
    IN SelectSeq([i \in DOMAIN lines |-> Strip(lines[i])], NotEmpty)

GetSampleText ==
    <<
       <<"A","p","a","c","h","e"," ","S","p","a","r","k"," ","i","s"," ","a",
         " ","u","n","i","f","i","e","d"," ","a","n","a","l","y","t","i","c",
         "s"," ","e","n","g","i","n","e"," ","f","o","r"," ","l","a","r","g",
         "e","-","s","c","a","l","e"," ","d","a","t","a"," ","p","r","o","c",
         "e","s","s","i","n","g">>,
       <<"S","p","a","r","k"," ","p","r","o","v","i","d","e","s"," ","h","i",
         "g","h","-","l","e","v","e","l"," ","A","P","I","s"," ","i","n"," ",
         "J","a","v","a",","," ","S","c","a","l","a",","," ","P","y","t","h",
         "o","n"," ","a","n","d"," ","R">>,
       <<"P","y","S","p","a","r","k"," ","i","s"," ","t","h","e"," ","P","y",
         "t","h","o","n"," ","A","P","I"," ","f","o","r"," ","A","p","a","c",
         "h","e"," ","S","p","a","r","k">>,
       <<"W","o","r","d"," ","c","o","u","n","t"," ","i","s"," ","a"," ","c",
         "l","a","s","s","i","c"," ","e","x","a","m","p","l","e"," ","o","f",
         " ","d","i","s","t","r","i","b","u","t","e","d"," ","c","o","m","p",
         "u","t","i","n","g"," ","w","i","t","h"," ","S","p","a","r","k">>,
       <<"S","p","a","r","k"," ","c","a","n"," ","p","r","o","c","e","s","s",
         " ","d","a","t","a"," ","f","r","o","m"," ","v","a","r","i","o","u",
         "s"," ","s","o","u","r","c","e","s"," ","i","n","c","l","u","d","i",
         "n","g"," ","H","D","F","S",","," ","S","3",","," ","a","n","d"," ",
         "d","a","t","a","b","a","s","e","s">>,
       <<"T","h","e"," ","D","a","t","a","F","r","a","m","e"," ","A","P","I",
         " ","m","a","k","e","s"," ","S","p","a","r","k"," ","p","r","o","g",
         "r","a","m","m","i","n","g"," ","e","a","s","i","e","r"," ","a","n",
         "d"," ","m","o","r","e"," ","i","n","t","u","i","t","i","v","e">>,
       <<"S","p","a","r","k"," ","s","u","p","p","o","r","t","s"," ","b","a",
         "t","c","h"," ","p","r","o","c","e","s","s","i","n","g",","," ","s",
         "t","r","e","a","m","i","n","g",","," ","m","a","c","h","i","n","e",
         " ","l","e","a","r","n","i","n","g",","," ","a","n","d"," ","g","r",
         "a","p","h"," ","p","r","o","c","e","s","s","i","n","g">>,
       <<"P","y","S","p","a","r","k"," ","a","p","p","l","i","c","a","t","i",
         "o","n","s"," ","c","a","n"," ","r","u","n"," ","o","n"," ","K","u",
         "b","e","r","n","e","t","e","s"," ","c","l","u","s","t","e","r","s",
         " ","f","o","r"," ","c","o","n","t","a","i","n","e","r"," ","o","r",
         "c","h","e","s","t","r","a","t","i","o","n">>,
       <<"S","p","a","r","k"," ","C","o","n","n","e","c","t"," ","e","n","a",
         "b","l","e","s"," ","r","e","m","o","t","e"," ","c","o","n","n","e",
         "c","t","i","v","i","t","y"," ","t","o"," ","S","p","a","r","k"," ",
         "c","l","u","s","t","e","r","s">>,
       <<"D","a","t","a"," ","p","r","o","c","e","s","s","i","n","g"," ","a",
         "t"," ","s","c","a","l","e"," ","r","e","q","u","i","r","e","s"," ",
         "d","i","s","t","r","i","b","u","t","e","d"," ","c","o","m","p","u",
         "t","i","n","g"," ","f","r","a","m","e","w","o","r","k","s"," ","l",
         "i","k","e"," ","S","p","a","r","k">>
    >>

InitMain ==
    /\ pc = "main"
    /\ file_exists \in BOOLEAN
    /\ file_text \in Texts(MaxFileLen)
    /\ ~file_exists => file_text = <<>>
    /\ input_data = <<>>
    /\ spark = "unbound"
    /\ stop_calls = 0
    /\ exc = "none"
    /\ log = <<>>
    /\ InitPwcVars
    /\ InitMergeVars
    /\ runs = <<>>

\* line 98
MainStart ==
    /\ pc = "main"
    /\ log' = Append(log, <<"Starting PySpark Word Count Application">>)
    /\ pc' = "create"
    /\ UNCHANGED <<input_data, pwcVars, exc, mainVars, mergeVars, runs>>

\* line 102 and create_spark_session: the session is returned, or building it
\* raises and `spark` stays unbound
CreateSparkSession ==
    /\ pc = "create"
    /\ \E is_bolt \in BOOLEAN :
         log' = Append(log, IF is_bolt
                            THEN <<"Creating Spark Connect session for Bolt environment">>
                            ELSE <<"Creating standard SparkSession for production environment">>)
    /\ \/ /\ spark' = "active"
          /\ pc' = "created"
          /\ exc' = exc
       \/ /\ \E e \in ExceptionKinds : exc' = e
          /\ pc' = "except"
          /\ spark' = spark
    /\ UNCHANGED <<input_data, pwcVars, stop_calls, file_text, file_exists,
                   mergeVars, runs>>

\* line 103
LogCreated ==
    /\ pc = "created"
    /\ log' = Append(log, <<"Spark session created successfully">>)
    /\ pc' = "select"
    /\ UNCHANGED <<input_data, pwcVars, exc, mainVars, mergeVars, runs>>

\* lines 106-114
SelectInput ==
    /\ pc = "select"
    /\ IF file_exists
       THEN /\ log' = Append(log, <<"Reading input from file">>)
            /\ \/ /\ input_data' = ReadLines(file_text)
                  /\ pc' = "call"
                  /\ exc' = exc
               \/ /\ exc' = "Exception"
                  /\ pc' = "except"
                  /\ input_data' = input_data
       ELSE /\ log' = Append(log, <<"Using sample text data">>)
            /\ input_data' = GetSampleText
            /\ pc' = "call"
            /\ exc' = exc
    /\ UNCHANGED <<pwcVars, mainVars, mergeVars, runs>>

\* line 117: perform_word_count returns, or raises (always, when there is no
\* row to infer the schema from)
PerformWordCount ==
    /\ pc = "call"
    /\ \/ /\ ~CannotInferSchema(input_data)
          /\ pc' = "completed"
          /\ exc' = exc
       \/ /\ CannotInferSchema(input_data)
          /\ exc' = "Exception"
          /\ pc' = "except"
       \/ /\ \E e \in ExceptionKinds : exc' = e
          /\ pc' = "except"
    /\ UNCHANGED <<input_data, pwcVars, log, mainVars, mergeVars, runs>>

\* line 119
LogCompleted ==
    /\ pc = "completed"
    /\ log' = Append(log, <<"Word count application completed successfully">>)
    /\ pc' = "finally"
    /\ UNCHANGED <<input_data, pwcVars, exc, mainVars, mergeVars, runs>>

\* lines 121-123: `except Exception` logs and re-raises; any other exception
\* passes the clause by
Except ==
    /\ pc = "except"
    /\ log' = IF exc = "Exception" THEN Append(log, <<"Application failed">>) ELSE log
    /\ pc' = "finally"
    /\ UNCHANGED <<input_data, pwcVars, exc, mainVars, mergeVars, runs>>

\* A finally clause that stops the session only when the try block succeeded.
FinallyOnSuccess ==
    /\ pc = "finally"
    /\ IF spark # "unbound" /\ exc = "none"
       THEN /\ spark' = "stopped"
            /\ stop_calls' = stop_calls + 1
            /\ log' = Append(log, <<"Spark session stopped">>)
       ELSE UNCHANGED <<spark, stop_calls, log>>
    /\ pc' = IF exc = "none" THEN "exit" ELSE "exit_raised"
    /\ UNCHANGED <<input_data, pwcVars, exc, file_text, file_exists, mergeVars, runs>>

\* lines 124-127, then main returns or the exception in flight reaches the caller
Finally ==
    /\ pc = "finally"
    /\ IF spark # "unbound"
       THEN /\ spark' = "stopped"
            /\ stop_calls' = stop_calls + 1
            /\ log' = Append(log, <<"Spark session stopped">>)
       ELSE UNCHANGED <<spark, stop_calls, log>>
    /\ pc' = IF exc = "none" THEN "exit" ELSE "exit_raised"
    /\ UNCHANGED <<input_data, pwcVars, exc, file_text, file_exists, mergeVars, runs>>

NextMain ==
    \/ MainStart
    \/ CreateSparkSession
    \/ LogCreated
    \/ SelectInput
    \/ PerformWordCount
    \/ LogCompleted
    \/ Except
    \/ Finally

\* main runs top to bottom: a step that can be taken is taken.
SpecMain == InitMain /\ [][NextMain]_vars /\ WF_vars(NextMain)

Logged(msg) == \E i \in DOMAIN log : log[i][1] = msg
Exited == pc \in {"exit", "exit_raised"}

\* C10 as claimed: when main ends, stop() was called exactly once if the
\* session was created and never otherwise, any exception of the try block
\* was logged and reached the caller, and the success log implies no exception.
C10_AnyExceptionLogged ==
    Exited =>
        /\ spark # "unbound" => stop_calls = 1
        /\ spark = "unbound" => stop_calls = 0
        /\ exc # "none" => Logged("Application failed") /\ pc = "exit_raised"
        /\ Logged("Word count application completed successfully") => exc = "none"

\* C10 as amended: once the session is created stop() is eventually called,
\* exactly once and only in the finally clause, exception or not; it is never
\* called when create_spark_session raised; an exception of the try block
\* always reaches the caller and is logged first when it is an instance of
\* Exception (one that is not, such as KeyboardInterrupt, passes unlogged);
\* the success log is emitted only when no exception occurred.
C10_Lifecycle ==
    /\ [](stop_calls <= 1)
    /\ [](stop_calls = 1 => Exited /\ spark = "stopped")
    /\ [](spark = "unbound" => stop_calls = 0)
    /\ (spark = "active") ~> (stop_calls = 1)
    /\ [](Exited =>
            /\ spark # "unbound" => stop_calls = 1
            /\ exc = "Exception" => Logged("Application failed") /\ pc = "exit_raised"
            /\ exc = "BaseException" => ~Logged("Application failed") /\ pc = "exit_raised"
            /\ exc = "none" => pc = "exit"
            /\ Logged("Word count application completed successfully") <=> exc = "none")

C10_Witness ==
    /\ pc = "exit_raised"
    /\ exc = "Exception"
    /\ input_data = <<>>
    /\ file_exists
    /\ file_text # <<>>
    /\ spark = "stopped"
    /\ stop_calls = 1
    /\ Logged("Application failed")

====
